---- MODULE Spec2Model ----
(***************************************************************************)
(* A model of the pyvisa instrument drivers: the Instrument base class     *)
(* (drivers/abcinstr.py) and the Rohde&Schwarz ZVA network analyzer driver *)
(* (drivers/vna_skrf/rs_zva/rs_zva.py).                                    *)
(*                                                                         *)
(* Every driver method is one action.  A method is written as an operator  *)
(* on a "machine" record m that carries what the method reads and changes: *)
(* the resource timeout, the remote state of the instrument, the log of    *)
(* the commands sent (io), the diagnostics printed (out), the exception in *)
(* flight (exc) and the value returned (ret).  A step that finds an        *)
(* exception in flight does nothing, which is how a Python exception       *)
(* leaves the rest of a method unexecuted; try/except/finally are written  *)
(* out where the source has them.  Which transport call fails, and how, is *)
(* an input of each action (the failure plan m.fail).                      *)
(***************************************************************************)
EXTENDS Integers, Sequences, FiniteSets, TLC

(* ------------------------------ bounds --------------------------------- *)
MaxChan == 2
MaxCloseCalls == 3
MaxPorts == 2
MaxPts == 2
MaxMeas == 2
MaxTraceReq == 2

(* ------------------------- program constants --------------------------- *)
NPORTS == 4
ZvaDefaultTimeout == 2000
ProbeTimeout == 500
FallbackChannel == 1

(* -------------------------- text as characters ------------------------- *)
\* A Python str is a sequence of one-character strings.
DigitChars == <<"0", "1", "2", "3", "4", "5", "6", "7", "8", "9">>

IsDigit(c) == \E i \in 1..10 : DigitChars[i] = c

DigitVal(c) == (CHOOSE i \in 1..10 : DigitChars[i] = c) - 1

RECURSIVE FormatD(_)
\* "{:d}".format(n) and str(n) for n >= 0
FormatD(n) ==
    IF n < 10 THEN <<DigitChars[n + 1]>>
    ELSE FormatD(n \div 10) \o <<DigitChars[(n % 10) + 1]>>

RECURSIVE DigitsValue(_)
DigitsValue(s) ==
    IF s = <<>> THEN 0
    ELSE 10 * DigitsValue(SubSeq(s, 1, Len(s) - 1)) + DigitVal(s[Len(s)])

\* int(s) for a str of digits and letters: a value, or ValueError
PyInt(s) ==
    IF s # <<>> /\ \A i \in 1..Len(s) : IsDigit(s[i])
    THEN [ok |-> TRUE, val |-> DigitsValue(s)]
    ELSE [ok |-> FALSE, val |-> 0]

RECURSIVE Remove(_, _)
\* s.replace(c, "")
Remove(s, c) ==
    IF s = <<>> THEN <<>>
    ELSE IF s[1] = c THEN Remove(Tail(s), c)
    ELSE <<s[1]>> \o Remove(Tail(s), c)

\* s[-2:]
LastTwo(s) == IF Len(s) <= 2 THEN s ELSE SubSeq(s, Len(s) - 1, Len(s))

RECURSIVE SplitAcc(_, _, _)
SplitAcc(s, sep, cur) ==
    IF s = <<>> THEN <<cur>>
    ELSE IF s[1] = sep THEN <<cur>> \o SplitAcc(Tail(s), sep, <<>>)
    ELSE SplitAcc(Tail(s), sep, Append(cur, s[1]))

\* s.split(sep): "" splits into [""]
Split(s, sep) == SplitAcc(s, sep, <<>>)

RECURSIVE Join(_, _)
\* sep.join(parts)
Join(parts, sep) ==
    IF parts = <<>> THEN <<>>
    ELSE IF Len(parts) = 1 THEN parts[1]
    ELSE parts[1] \o <<sep>> \o Join(Tail(parts), sep)

RECURSIVE SetToSeq(_)
\* the members of a set of numbers in ascending order
SetToSeq(S) ==
    IF S = {} THEN <<>>
    ELSE LET x == CHOOSE y \in S : \A z \in S : y <= z
         IN <<x>> \o SetToSeq(S \ {x})

\* s[start::2] of a Python sequence (start counted from 0)
Stride2(s, start) ==
    [k \in 1..((Len(s) - start + 1) \div 2) |-> s[start + 2 * k - 1]]

(* ------------------------------- state --------------------------------- *)
VARIABLES
    scope,      \* where the Instrument is in its with-block
    resource,   \* the VISA resource: its timeout and the close() calls made on it
    inst,       \* the remote state of the instrument
    call,       \* the last method called, with its arguments
    io,         \* the commands the last method sent, in order
    out,        \* the diagnostics the last method printed
    exc,        \* the exception the last method raised ("none": it returned)
    ret         \* the value the last method returned

vars == <<scope, resource, inst, call, io, out, exc, ret>>

None == "None"

FailKinds == {"VisaIOError", "Error"}

NoFail == [at |-> 0, kind |-> "VisaIOError"]

\* the failure plans of a method sending at most n commands: no failure, or
\* the k-th command raises a transport error or some other error
FailPlans(n) == {NoFail} \cup [at : 1..n, kind : FailKinds]

Machine(f) ==
    [timeout |-> resource.timeout, inst |-> inst, io |-> <<>>, out |-> <<>>,
     exc |-> "none", ret |-> None, fail |-> f]

\* F applied to the value of v, which is computed once
Bind(v, F(_)) == CHOOSE r \in {F(x) : x \in {v}} : TRUE

\* The next statement F of a method, run on the machine m0 the statement
\* before it left: with an exception in flight it is not run
Then(m0, F(_)) == Bind(m0, LAMBDA m : IF m.exc # "none" THEN m ELSE F(m))

Raise(m0, e) == Then(m0, LAMBDA m : [m EXCEPT !.exc = e, !.ret = None])

Return(m0, v) == Then(m0, LAMBDA m : [m EXCEPT !.ret = v])

\* One command handed to the transport (self.resource.write / query /
\* query_values through the SCPI layer): logged, and it raises when the
\* failure plan names it.
Send(m0, cmd, args) ==
    Then(m0, LAMBDA m :
        [m EXCEPT !.io = Append(@, [cmd |-> cmd, args |-> args]),
                  !.ret = None,
                  !.exc = IF m.fail.at = Len(m.io) + 1 THEN m.fail.kind ELSE "none"])

Cmds(log) == [i \in 1..Len(log) |-> log[i].cmd]

Count(log, cmd) == Cardinality({i \in 1..Len(log) : log[i].cmd = cmd})

(* ------------------- the instrument behind the SCPI layer -------------- *)
\* The reply to the active-channel query; an instrument with no active
\* channel does not answer and the query times out.
QueryActiveChannel(m) ==
    Then(Send(m, "query_active_channel", <<>>), LAMBDA s :
        IF s.inst.active = 0 THEN Raise(s, "VisaIOError")
        ELSE Return(s, s.inst.active))

SetActiveChannel(m, channel) ==
    Then(Send(m, "set_active_channel", <<channel>>), LAMBDA s :
        [s EXCEPT !.inst.active = channel])

\* The channel catalog "1,Ch1,2,Ch2" of the channels the instrument holds
CatalogText(chans) ==
    LET ids == SetToSeq(chans)
    IN Join([i \in 1..(2 * Len(ids)) |->
                IF i % 2 = 1 THEN FormatD(ids[(i + 1) \div 2])
                ELSE <<"C", "h">> \o FormatD(ids[i \div 2])], ",")

QueryChannelCatalog(m) ==
    Then(Send(m, "query_channel_catalog", <<>>), LAMBDA s :
        Return(s, CatalogText(s.inst.chans)))

(* ------------------------------ ZVA: channels -------------------------- *)
\* The getter without its except clause: a transport error leaves the method
active_channel_NoCatch(m0) ==
    Then(m0, LAMBDA m :
        Bind(QueryActiveChannel([m EXCEPT !.timeout = ProbeTimeout]), LAMBDA q :
            [q EXCEPT !.timeout = m.timeout]))

\* ZVA.active_channel (getter): try / except pyvisa.VisaIOError / finally
active_channel(m0) ==
    Then(m0, LAMBDA m :
        Bind(QueryActiveChannel([m EXCEPT !.timeout = ProbeTimeout]), LAMBDA q :
            IF q.exc = "VisaIOError"
            THEN [q EXCEPT !.exc = "none",
                           !.out = Append(@, "No channel active, using 1"),
                           !.ret = FallbackChannel,
                           !.timeout = m.timeout]
            ELSE [q EXCEPT !.timeout = m.timeout]))

\* dict(...) of channel_list: the channel numbers that are its keys, or a
\* ValueError of int()
CatalogKeys(return_str) ==
    LET n == Len(return_str) \div 2
        keys == [i \in 1..n |-> PyInt(return_str[2 * i - 1])]
    IN [ok |-> \A i \in 1..n : keys[i].ok, val |-> {keys[i].val : i \in 1..n}]

\* ZVA.channel_list
channel_list(m) ==
    Then(QueryChannelCatalog(m), LAMBDA q :
        Bind(CatalogKeys(Split(q.ret, ",")), LAMBDA channel_dct :
            IF channel_dct.ok THEN Return(q, channel_dct.val)
            ELSE Raise(q, "Error")))

\* The setter without the test of the channel list: the channel is selected
\* whether the instrument has it or not
SetChannelBody_NoTest(m, channel) ==
    Then(channel_list(m), LAMBDA c :
        QueryActiveChannel(SetActiveChannel(c, channel)))

\* The body of the setter between the two assignments to the timeout
SetChannelBody(m, channel) ==
    Then(channel_list(m), LAMBDA c :
        QueryActiveChannel(
            IF channel \in c.ret THEN SetActiveChannel(c, channel)
            ELSE [c EXCEPT !.out = Append(@, "Channel not in list of channels. Create channel first")]))

\* ZVA.active_channel (setter): the timeout is put back by the last
\* statement, which an exception does not reach
set_active_channel(m0, channel) ==
    Then(m0, LAMBDA m :
        Then(SetChannelBody([m EXCEPT !.timeout = ProbeTimeout], channel), LAMBDA q :
            [q EXCEPT !.timeout = m.timeout]))

(* ------------------- the instrument: traces and sweeps ------------------ *)
\* The key "S<receive><source>" of a measured parameter
SKey(receive_port, source_port) ==
    <<"S">> \o FormatD(receive_port) \o FormatD(source_port)

\* The instrument names its traces Trc1, Trc2, ... in catalog order
TraceName(i) == <<"T", "r", "c">> \o FormatD(i)

\* The reply to the trace catalog query: name, parameter, name, parameter...
CatalogueOf(tr) ==
    [i \in 1..(2 * Len(tr)) |->
        IF i % 2 = 1 THEN TraceName((i + 1) \div 2) ELSE tr[i \div 2]]

QueryParCatalog(m, channel) ==
    Then(Send(m, "query_par_catalog", <<channel>>), LAMBDA s :
        Return(s, CatalogueOf(s.inst.acq.traces)))

QuerySweepNPoints(m, channel) ==
    Then(Send(m, "query_sweep_n_points", <<channel>>), LAMBDA s :
        Return(s, s.inst.acq.npoints))

QuerySweepType(m, channel) ==
    Then(Send(m, "query_sweep_type", <<channel>>), LAMBDA s :
        Return(s, s.inst.acq.sweep))

QueryFStart(m, channel) ==
    Then(Send(m, "query_f_start", <<channel>>), LAMBDA s :
        Return(s, s.inst.acq.f_start))

QueryFStop(m, channel) ==
    Then(Send(m, "query_f_stop", <<channel>>), LAMBDA s :
        Return(s, s.inst.acq.f_stop))

\* The number of the trace of a name, 0 when there is none
TraceNumber(tr, name) ==
    LET hit == {i \in 1..Len(tr) : TraceName(i) = name}
    IN IF hit = {} THEN 0 ELSE CHOOSE i \in hit : TRUE

\* Selecting a trace by name makes it the one whose data is read
SetParSelect(m, channel, trace) ==
    Then(Send(m, "set_par_select", <<channel, trace>>), LAMBDA s :
        [s EXCEPT !.inst.acq.selected = TraceNumber(s.inst.acq.traces, trace)])

SetSelectedMeasByNumber(m, channel, mnum) ==
    Then(Send(m, "set_selected_meas_by_number", <<channel, mnum>>), LAMBDA s :
        [s EXCEPT !.inst.acq.selected =
            IF mnum \in 1..Len(s.inst.acq.traces) THEN mnum ELSE 0])

\* With no trace selected the instrument does not answer
QueryParSelect(m, channel) ==
    Then(Send(m, "query_par_select", <<channel>>), LAMBDA s :
        IF s.inst.acq.selected = 0 THEN Raise(s, "VisaIOError")
        ELSE Return(s, TraceName(s.inst.acq.selected)))

\* The SDATA of the selected trace: a flat sequence of numbers
QueryData(m, channel) ==
    Then(Send(m, "query_data", <<channel, "SDATA">>), LAMBDA s :
        IF s.inst.acq.selected = 0 THEN Raise(s, "VisaIOError")
        ELSE Return(s, s.inst.acq.data[s.inst.acq.selected]))

ResourceClear(m) == Send(m, "clear", <<>>)

(* --------------------------- ZVA: acquisition -------------------------- *)
\* The decoding with the two strides exchanged: sdata[1::2] + 1j * sdata[::2]
DecodeSData_Swapped(sdata) ==
    LET re == Stride2(sdata, 1)
        im == Stride2(sdata, 0)
    IN IF Len(re) = Len(im)
       THEN [ok |-> TRUE, val |-> [k \in 1..Len(re) |-> [re |-> re[k], im |-> im[k]]]]
       ELSE IF Len(im) = 1
       THEN [ok |-> TRUE, val |-> [k \in 1..Len(re) |-> [re |-> re[k], im |-> im[1]]]]
       ELSE IF Len(re) = 1
       THEN [ok |-> TRUE, val |-> <<>>]
       ELSE [ok |-> FALSE, val |-> <<>>]

\* sdata[::2] + 1j * sdata[1::2] on numpy arrays: the even-indexed values are
\* the real parts, the odd-indexed ones the imaginary parts; arrays of
\* different lengths broadcast when one has length 1 and fail otherwise.
DecodeSData(sdata) ==
    LET re == Stride2(sdata, 0)
        im == Stride2(sdata, 1)
    IN IF Len(re) = Len(im)
       THEN [ok |-> TRUE, val |-> [k \in 1..Len(re) |-> [re |-> re[k], im |-> im[k]]]]
       ELSE IF Len(im) = 1
       THEN [ok |-> TRUE, val |-> [k \in 1..Len(re) |-> [re |-> re[k], im |-> im[1]]]]
       ELSE IF Len(re) = 1
       THEN [ok |-> TRUE, val |-> <<>>]
       ELSE [ok |-> FALSE, val |-> <<>>]

Spacing(sweep_type) == IF sweep_type = "LOG" THEN "logspace" ELSE "linspace"

\* ZVA.get_frequency; channel 0 stands for no channel argument.  The default
\* of kwargs.get is evaluated in either case, so the active channel is probed.
get_frequency(m, chanArg, f_unit) ==
    Then(active_channel(m), LAMBDA a :
    Bind(IF chanArg = 0 THEN a.ret ELSE chanArg, LAMBDA channel :
    Then(QuerySweepType(a, channel), LAMBDA t :
    Then(QueryFStart(t, channel), LAMBDA f1 :
    Then(QueryFStop(f1, channel), LAMBDA f2 :
    Then(QuerySweepNPoints(f2, channel), LAMBDA n :
        Return(n, [spacing |-> Spacing(t.ret), f_start |-> f1.ret,
                   f_stop |-> f2.ret, npoints |-> n.ret, unit |-> f_unit])))))))

\* ZVA.get_active_trace_as_network
get_active_trace_as_network(m) ==
    Then(active_channel(m), LAMBDA a :
    Then(QueryParSelect(a, a.ret), LAMBDA nm :
    Then(get_frequency(nm, a.ret, "GHz"), LAMBDA fr :
    Then(QueryData(fr, a.ret), LAMBDA d :
    Bind(DecodeSData(d.ret), LAMBDA s :
        IF s.ok THEN Return(d, [name |-> nm.ret, frequency |-> fr.ret, s |-> s.val])
        ELSE Raise(d, "ValueError"))))))

\* Python == on the values a caller may put in ports: 1 == 1.0
PyEq(a, b) ==
    \/ a = b
    \/ a.t \in {"int", "float"} /\ b.t \in {"int", "float"} /\ a.v = b.v

\* The check of one port without the count of its occurrences
PortBad_NoCount(ports, i) ==
    \/ ports[i].t # "int"
    \/ ~(0 < ports[i].v /\ ports[i].v <= NPORTS)

PortBad(ports, i) ==
    \/ ports[i].t # "int"
    \/ ~(0 < ports[i].v /\ ports[i].v <= NPORTS)
    \/ \E j \in (i + 1)..Len(ports) : PyEq(ports[i], ports[j])

\* The check of ports at the head of get_snp_network: the exception of the
\* first port that fails a test, the tests taken in the order type, range,
\* duplicate
ValidatePorts(ports) ==
    LET bad == {i \in 1..Len(ports) : PortBad(ports, i)}
        i == CHOOSE x \in bad : \A y \in bad : x <= y
    IN IF bad = {} THEN "none"
       ELSE IF ports[i].t # "int" THEN "TypeError"
       ELSE "ValueError"

\* list.index: the first position holding x
IndexOf(s, x) == CHOOSE i \in 1..Len(s) : s[i] = x /\ \A j \in 1..(i - 1) : s[j] # x

Contains(s, x) == \E i \in 1..Len(s) : s[i] = x

\* The first loops of get_snp_network: some pair of ports has no trace
MissingTrace(ports, trace_data) ==
    \E r \in 1..Len(ports), s \in 1..Len(ports) :
        ~Contains(trace_data, SKey(ports[r].v, ports[s].v))

\* np.zeros(shape=(npoints, nports, nports), dtype=complex)
Zeros(npoints, nports) ==
    [p \in 1..npoints |-> [x \in 1..nports |-> [y \in 1..nports |-> [re |-> 0, im |-> 0]]]]

\* ntwk.s[:, a, b] = col, rows and columns counted from 1 here
AssignColumn(s, a, b, col) ==
    [p \in DOMAIN s |-> [s[p] EXCEPT ![a][b] = IF Len(col) = 1 THEN col[1] ELSE col[p]]]

\* One pass of the loops of get_snp_network that read the traces, with m
\* over the source ports and n over the receive ports (both from 0): the
\* trace S<receive><source> is selected, read and stored at s[:, m, n].
\* The tensor under construction is carried in d.ret.
ReadOne(d, c, m, n) ==
    LET port_key == SKey(c.ports[n + 1].v, c.ports[m + 1].v)
        trace == c.trace_name[IndexOf(c.trace_data, port_key)]
    IN Then(QueryData(SetParSelect(d, c.channel, trace), c.channel), LAMBDA q :
       Bind(DecodeSData(q.ret), LAMBDA col :
           IF ~col.ok \/ (Len(col.val) # 1 /\ Len(col.val) # c.npoints)
           THEN Raise(q, "ValueError")
           ELSE Return(q, AssignColumn(d.ret, m + 1, n + 1, col.val))))

RECURSIVE ReadTraces(_, _, _)
\* for m, source_port in enumerate(ports): for n, receive_port in
\* enumerate(ports): the k-th pass (from 0) has m = k div nports and
\* n = k mod nports
ReadTraces(d0, c, k) ==
    Then(d0, LAMBDA d :
        IF k >= Len(c.ports) * Len(c.ports) THEN d
        ELSE ReadTraces(ReadOne(d, c, k \div Len(c.ports), k % Len(c.ports)), c, k + 1))

\* get_snp_network with the number of points queried before the catalog is
\* searched for the traces
SnpBody_PointsFirst(m, ports, chanArg) ==
    Then(active_channel(m), LAMBDA a :
    Bind(IF chanArg = 0 THEN a.ret ELSE chanArg, LAMBDA channel :
    Then(QueryParCatalog(a, channel), LAMBDA cat :
    Bind([ports |-> ports, channel |-> channel,
          trace_name |-> Stride2(cat.ret, 0), trace_data |-> Stride2(cat.ret, 1)],
         LAMBDA c :
    Then(QuerySweepNPoints(cat, channel), LAMBDA np :
    IF MissingTrace(ports, c.trace_data) THEN Raise(np, "Exception")
    ELSE
    Then(get_frequency(np, channel, "GHz"), LAMBDA fr :
    Then(ReadTraces(Return(fr, Zeros(np.ret, Len(ports))),
                    [ports |-> ports, channel |-> channel, trace_name |-> c.trace_name,
                     trace_data |-> c.trace_data, npoints |-> np.ret], 0),
         LAMBDA filled :
        Return(filled, [frequency |-> fr.ret, s |-> filled.ret,
                        name |-> <<Len(ports), ports>>]))))))))

\* ZVA.get_snp_network after the check of ports
SnpBody(m, ports, chanArg) ==
    Then(active_channel(m), LAMBDA a :
    Bind(IF chanArg = 0 THEN a.ret ELSE chanArg, LAMBDA channel :
    Then(QueryParCatalog(a, channel), LAMBDA cat :
    Bind([ports |-> ports, channel |-> channel,
          trace_name |-> Stride2(cat.ret, 0), trace_data |-> Stride2(cat.ret, 1)],
         LAMBDA c :
    IF MissingTrace(ports, c.trace_data) THEN Raise(cat, "Exception")
    ELSE
    Then(QuerySweepNPoints(cat, channel), LAMBDA np :
    Then(get_frequency(np, channel, "GHz"), LAMBDA fr :
    Then(ReadTraces(Return(fr, Zeros(np.ret, Len(ports))),
                    [ports |-> ports, channel |-> channel, trace_name |-> c.trace_name,
                     trace_data |-> c.trace_data, npoints |-> np.ret], 0),
         LAMBDA filled :
        Return(filled, [frequency |-> fr.ret, s |-> filled.ret,
                        name |-> <<Len(ports), ports>>]))))))))

\* ZVA.get_snp_network; channel 0 stands for no channel argument
get_snp_network(m, ports, chanArg) ==
    IF ValidatePorts(ports) # "none" THEN Raise(m, ValidatePorts(ports))
    ELSE SnpBody(m, ports, chanArg)

\* VNA.sweep, defined outside these files: one sweep triggered and awaited
Sweep(m, channels) == Send(m, "sweep", <<channels>>)

RECURSIVE Distinct(_)
\* the keys of the OrderedDict: each channel once, in order of first occurrence
Distinct(s) ==
    IF s = <<>> THEN <<>>
    ELSE LET init == Distinct(SubSeq(s, 1, Len(s) - 1))
         IN IF Contains(init, s[Len(s)]) THEN init ELSE Append(init, s[Len(s)])

RECURSIVE Select(_, _)
Select(traces, ch) ==
    IF traces = <<>> THEN <<>>
    ELSE IF traces[1].channel = ch
    THEN <<traces[1]>> \o Select(Tail(traces), ch)
    ELSE Select(Tail(traces), ch)

\* One pass of the inner loop of get_traces; the list of networks is d.ret
ReadTrace(d, trace, frequency) ==
    Then(QueryData(SetSelectedMeasByNumber(d, trace.channel, trace.mnum), trace.channel),
         LAMBDA q :
         Bind(DecodeSData(q.ret), LAMBDA s :
             IF s.ok
             THEN Return(q, Append(d.ret, [s |-> s.val, frequency |-> frequency,
                                           name |-> trace.mnum]))
             ELSE Raise(q, "ValueError")))

RECURSIVE ReadGroup(_, _, _, _)
\* the inner loop of get_traces over the traces of one channel
ReadGroup(d0, group, frequency, k) ==
    Then(d0, LAMBDA d :
        IF k > Len(group) THEN d
        ELSE ReadGroup(ReadTrace(d, group[k], frequency), group, frequency, k + 1))

RECURSIVE ReadChannels(_, _, _, _)
\* the outer loop of get_traces over the channels
ReadChannels(d0, channels, traces, k) ==
    Then(d0, LAMBDA d :
        IF k > Len(channels) THEN d
        ELSE Then(get_frequency(d, 0, "Hz"), LAMBDA fr :
                 ReadChannels(ReadGroup(Return(fr, d.ret), Select(traces, channels[k]),
                                        fr.ret, 1),
                              channels, traces, k + 1)))

\* ZVA.get_traces
get_traces(m, traces, sweep) ==
    Bind(Distinct([i \in 1..Len(traces) |-> traces[i].channel]), LAMBDA channels :
    Then(ResourceClear(m), LAMBDA c :
        ReadChannels(Return(IF sweep THEN Sweep(c, channels) ELSE c, <<>>),
                     channels, traces, 1)))

(* --------------------------- ZVA: switch terms ------------------------- *)
\* The reply to the measurement catalog query: name, parameter, name,
\* parameter...; an instrument with no measurement answers one empty string
MeasCatalogue(ms) ==
    IF ms = <<>> THEN << <<>> >>
    ELSE [i \in 1..(2 * Len(ms)) |-> IF i % 2 = 1 THEN ms[(i + 1) \div 2] ELSE SKey(1, 1)]

QueryMeasNameList(m, channel) ==
    Then(Send(m, "query_meas_name_list", <<channel>>), LAMBDA s :
        Return(s, MeasCatalogue(s.inst.acq.meas)))

\* VNA.create_meas, defined outside these files: one new measurement of the
\* given name on the instrument
create_meas(m, name, param) ==
    Then(Send(m, "create_meas", <<name, param>>), LAMBDA s :
        [s EXCEPT !.inst.acq.meas = IF Contains(@, name) THEN @ ELSE Append(@, name)])

\* VNA.get_measurement, defined outside these files: the named measurement
\* read back as a network
get_measurement(m, mname) ==
    Then(Send(m, "get_measurement", <<mname>>), LAMBDA s :
        Return(s, [mname |-> mname]))

RECURSIVE Without(_, _)
Without(s, x) ==
    IF s = <<>> THEN <<>>
    ELSE IF s[1] = x THEN Without(Tail(s), x)
    ELSE <<s[1]>> \o Without(Tail(s), x)

SetDeleteMeas(m, channel, name) ==
    Then(Send(m, "set_delete_meas", <<channel, name>>), LAMBDA s :
        [s EXCEPT !.inst.acq.meas = Without(@, name)])

\* ZVA.get_meas_list with no channel argument: the (name, parameter) pairs,
\* or None for a catalog of one item.  The value is a record that says
\* which: [none |-> TRUE] is Python's None.
get_meas_list(m) ==
    Then(active_channel(m), LAMBDA a :
    Then(QueryMeasNameList(a, a.ret), LAMBDA q :
        IF Len(q.ret) = 1 THEN Return(q, [none |-> TRUE, items |-> <<>>])
        ELSE Return(q, [none |-> FALSE,
                        items |-> [k \in 1..(Len(q.ret) \div 2) |->
                                     <<q.ret[2 * k - 1], q.ret[2 * k]>>]])))

RECURSIVE MaxTrace(_, _, _)
\* The loop of get_switch_terms over the measurements: max_trace is raised to
\* the number read from the last two characters of a name, "_" dropped, when
\* that is a number and larger
MaxTrace(measurements, k, max_trace) ==
    IF k > Len(measurements) THEN max_trace
    ELSE LET trace_num == PyInt(Remove(LastTwo(measurements[k][1]), "_"))
         IN MaxTrace(measurements, k + 1,
                     IF trace_num.ok /\ trace_num.val > max_trace
                     THEN trace_num.val ELSE max_trace)

\* "CH{:}_FS_P{:d}_{:d}".format(channel, p1, max_trace + 1)
ForwardName(channel, p1, max_trace) ==
    <<"C", "H">> \o FormatD(channel) \o <<"_", "F", "S", "_", "P">> \o FormatD(p1)
        \o <<"_">> \o FormatD(max_trace + 1)

\* "CH{:}_RS_P{:d}_{:d}".format(channel, p2, max_trace + 2)
ReverseName(channel, p2, max_trace) ==
    <<"C", "H">> \o FormatD(channel) \o <<"_", "R", "S", "_", "P">> \o FormatD(p2)
        \o <<"_">> \o FormatD(max_trace + 2)

\* 'a{:}b{:},{:}'.format(x, x, y)
SwitchParam(x, y) ==
    <<"a">> \o FormatD(x) \o <<"b">> \o FormatD(x) \o <<",">> \o FormatD(y)

\* The steps with the measurements deleted in the order reverse, forward
SwitchSteps_DeleteReverseFirst(m, n) ==
    Then(create_meas(m, n.forward_name, SwitchParam(n.p2, n.p1)), LAMBDA c1 :
    Then(create_meas(c1, n.reverse_name, SwitchParam(n.p1, n.p2)), LAMBDA c2 :
    Then(Sweep(c2, n.channel), LAMBDA sw :
    Then(get_measurement(sw, n.forward_name), LAMBDA forward :
    Then(get_measurement(forward, n.reverse_name), LAMBDA reverse :
    Then(SetDeleteMeas(reverse, n.channel, n.reverse_name), LAMBDA d1 :
    Then(SetDeleteMeas(d1, n.channel, n.forward_name), LAMBDA d2 :
        Return(d2, <<[forward.ret EXCEPT !.mname = "forward switch terms"],
                     [reverse.ret EXCEPT !.mname = "reverse switch terms"]>>))))))))

\* The rest of get_switch_terms once the names are chosen: create, sweep,
\* read, delete, with nothing caught on the way.  n is the record of the
\* names and ports.
SwitchSteps(m, n) ==
    Then(create_meas(m, n.forward_name, SwitchParam(n.p2, n.p1)), LAMBDA c1 :
    Then(create_meas(c1, n.reverse_name, SwitchParam(n.p1, n.p2)), LAMBDA c2 :
    Then(Sweep(c2, n.channel), LAMBDA sw :
    Then(get_measurement(sw, n.forward_name), LAMBDA forward :
    Then(get_measurement(forward, n.reverse_name), LAMBDA reverse :
    Then(SetDeleteMeas(reverse, n.channel, n.forward_name), LAMBDA d1 :
    Then(SetDeleteMeas(d1, n.channel, n.reverse_name), LAMBDA d2 :
        Return(d2, <<[forward.ret EXCEPT !.mname = "forward switch terms"],
                     [reverse.ret EXCEPT !.mname = "reverse switch terms"]>>))))))))

\* The names get_switch_terms gives its two measurements
SwitchNames(channel, p1, p2, measurements) ==
    Bind(MaxTrace(measurements, 1, Len(measurements)), LAMBDA max_trace :
        [channel |-> channel, p1 |-> p1, p2 |-> p2, max_trace |-> max_trace,
         forward_name |-> ForwardName(channel, p1, max_trace),
         reverse_name |-> ReverseName(channel, p2, max_trace)])

\* ZVA.get_switch_terms; channel 0 stands for no channel argument
get_switch_terms(m, ports, chanArg) ==
    Then(ResourceClear(m), LAMBDA c :
    Then(active_channel(c), LAMBDA a :
    Bind(IF chanArg = 0 THEN a.ret ELSE chanArg, LAMBDA channel :
    Then(set_active_channel(a, channel), LAMBDA st :
    Then(get_meas_list(st), LAMBDA ml :
        IF ml.ret.none THEN Raise(ml, "TypeError")
        ELSE Bind(SwitchNames(channel, ports[1], ports[2], ml.ret.items), LAMBDA n :
                 SwitchSteps(ml, n)))))))

(* --------------------------- Instrument lifecycle ---------------------- *)
\* Instrument.__exit__: closes the resource, whatever the exit
Instrument_exit(r) == [r EXCEPT !.closeCalls = @ + 1]

\* Instrument.close
Instrument_close(r) == Instrument_exit(r)

Open == resource.closeCalls = 0

\* No call is under observation: the driver is single-threaded and a method
\* is called when the one before has returned or raised
Idle == call.op \in {"__init__", "idle"}

\* The failure plans of a method: no failure, or a failure of one of the
\* commands that the method sends when none fails
PlansFor(m) == FailPlans(Len(m.io))

\* The method's effect on the state, as one step
Finish(m, c) ==
    /\ resource' = [resource EXCEPT !.timeout = m.timeout]
    /\ inst' = m.inst
    /\ io' = m.io
    /\ out' = m.out
    /\ exc' = m.exc
    /\ ret' = m.ret
    /\ call' = c
    /\ UNCHANGED scope

Lifecycle(c) ==
    /\ call' = c
    /\ io' = <<>>
    /\ out' = <<>>
    /\ exc' = "none"
    /\ ret' = None
    /\ UNCHANGED inst

\* The caller has taken the result of the last call and is about to make
\* the next one: what was observed of the last call is dropped
NextCall ==
    /\ ~Idle
    /\ call' = [op |-> "idle"]
    /\ io' = <<>>
    /\ out' = <<>>
    /\ exc' = "none"
    /\ ret' = None
    /\ UNCHANGED <<scope, resource, inst>>

\* with Instrument(...) as x:
Enter ==
    /\ Idle
    /\ scope = "constructed"
    /\ scope' = "inBlock"
    /\ UNCHANGED resource
    /\ Lifecycle([op |-> "__enter__"])

\* the end of the with-block, by falling off its end or by an exception
ExitBlock ==
    /\ Idle
    /\ scope = "inBlock"
    /\ \E byException \in BOOLEAN :
          /\ scope' = "exited"
          /\ resource' = Instrument_exit(resource)
          /\ Lifecycle([op |-> "__exit__", byException |-> byException])

\* x.close(), inside the block, after it, or with no block at all
Close ==
    /\ Idle
    /\ resource.closeCalls < MaxCloseCalls
    /\ resource' = Instrument_close(resource)
    /\ UNCHANGED scope
    /\ Lifecycle([op |-> "close"])

\* x.active_channel
ReadActiveChannel ==
    /\ Open /\ Idle
    /\ \E f \in PlansFor(active_channel(Machine(NoFail))) :
          Finish(active_channel(Machine(f)),
                 [op |-> "active_channel", before |-> inst, timeout |-> resource.timeout, fail |-> f])

\* x.active_channel = channel
WriteActiveChannel ==
    /\ Open /\ Idle
    /\ \E channel \in 1..(MaxChan + 1) :
       \E f \in PlansFor(set_active_channel(Machine(NoFail), channel)) :
          Finish(set_active_channel(Machine(f), channel),
                 [op |-> "set_active_channel", channel |-> channel,
                  before |-> inst, timeout |-> resource.timeout, fail |-> f])

\* An instrument with no trace and no measurement configured
NoAcq ==
    [traces |-> <<>>, data |-> <<>>, npoints |-> 1, selected |-> 0, sweep |-> "LIN",
     f_start |-> 1, f_stop |-> 2, meas |-> <<>>]

\* After ZVA.__init__: the resource is open with the timeout the caller
\* chose (2000 ms by default); the instrument holds some channels, one of
\* them active, or none at all.
Init ==
    /\ scope = "constructed"
    /\ resource \in [timeout : {ZvaDefaultTimeout, ProbeTimeout, ZvaDefaultTimeout + 1000},
                     closeCalls : {0}]
    /\ \E chans \in SUBSET (1..MaxChan) :
       \E active \in (IF chans = {} THEN {0} ELSE chans) :
          inst = [chans |-> chans, active |-> active, acq |-> NoAcq]
    /\ call = [op |-> "__init__"]
    /\ io = <<>>
    /\ out = <<>>
    /\ exc = "none"
    /\ ret = None

(* ----------------------- acquisition: the actions ---------------------- *)
\* What a caller may put in ports: integers in and around 1..NPORTS, a float
\* equal to an integer, and a string
PortVals ==
    [t : {"int"}, v : {0, 1, 2, NPORTS, NPORTS + 1}]
        \cup {[t |-> "float", v |-> 1], [t |-> "str", v |-> 0]}

RECURSIVE SeqsUpTo(_, _)
\* the sequences over S of length at most n
SeqsUpTo(S, n) ==
    IF n = 0 THEN {<<>>}
    ELSE LET shorter == SeqsUpTo(S, n - 1)
         IN shorter \cup {Append(s, x) : s \in {q \in shorter : Len(q) = n - 1}, x \in S}

PortLists == SeqsUpTo(PortVals, MaxPorts)

ChanArgs == {0, MaxChan}

\* x.get_snp_network(ports) and x.get_snp_network(ports, channel=c)
GetSnpNetwork ==
    /\ Open /\ Idle
    /\ \E ports \in PortLists, chanArg \in ChanArgs :
       \E f \in PlansFor(get_snp_network(Machine(NoFail), ports, chanArg)) :
          Finish(get_snp_network(Machine(f), ports, chanArg),
                 [op |-> "get_snp_network", ports |-> ports, chanArg |-> chanArg,
                  before |-> inst])

\* x.get_active_trace_as_network()
GetActiveTraceAsNetwork ==
    /\ Open /\ Idle
    /\ \E f \in PlansFor(get_active_trace_as_network(Machine(NoFail))) :
          Finish(get_active_trace_as_network(Machine(f)),
                 [op |-> "get_active_trace_as_network", before |-> inst])

\* The traces a caller may ask for: the first measurement of either channel
TraceRequests == SeqsUpTo([channel : {1, MaxChan}, mnum : {1}], MaxTraceReq)

\* x.get_traces(traces, sweep=...)
GetTraces ==
    /\ Open /\ Idle
    /\ \E traces \in TraceRequests, sweep \in BOOLEAN :
       \E f \in PlansFor(get_traces(Machine(NoFail), traces, sweep)) :
          Finish(get_traces(Machine(f), traces, sweep),
                 [op |-> "get_traces", traces |-> traces, sweep |-> sweep,
                  before |-> inst])

RECURSIVE Keep(_, _)
Keep(s, S) ==
    IF s = <<>> THEN <<>>
    ELSE IF s[1] \in S THEN <<s[1]>> \o Keep(Tail(s), S)
    ELSE Keep(Tail(s), S)

\* Trace catalogs: the four parameters of ports 1 and 2 in several orders,
\* one parameter measured twice, and every way of leaving traces out
BaseCatalogs ==
    {<<SKey(1, 1), SKey(2, 1), SKey(1, 2), SKey(2, 2)>>,
     <<SKey(2, 2), SKey(1, 2), SKey(2, 1), SKey(1, 1)>>,
     <<SKey(2, 1), SKey(1, 1), SKey(2, 1), SKey(1, 2), SKey(2, 2)>>}

Catalogs ==
    {Keep(b, S) : b \in BaseCatalogs,
                  S \in SUBSET {SKey(1, 1), SKey(2, 1), SKey(1, 2), SKey(2, 2)}}

\* SDATA that tells traces and points apart: value j of trace i is 10*i + j
MarkedData(i, npoints) == [j \in 1..(2 * npoints) |-> 10 * i + j]

DataVals == {0, 1}

\* The instrument with the traces of a catalog, each with its own data
InstMarked ==
    {[chans |-> 1..MaxChan, active |-> 1,
      acq |-> [NoAcq EXCEPT !.traces = c, !.npoints = n, !.sweep = "LOG",
                            !.data = [i \in 1..Len(c) |-> MarkedData(i, n)]]] :
        c \in Catalogs, n \in 1..MaxPts}

\* The instrument with one selected trace holding any data at all, of one
\* real and one imaginary value a point where the length allows it
InstAnyData ==
    {[chans |-> 1..MaxChan, active |-> 1,
      acq |-> [NoAcq EXCEPT !.traces = <<SKey(1, 1)>>, !.selected = 1, !.data = <<d>>,
                            !.npoints = IF Len(d) < 2 THEN 1 ELSE Len(d) \div 2]] :
        d \in SeqsUpTo(DataVals, 2 * MaxPts)}

Observed ==
    /\ call = [op |-> "__init__"]
    /\ io = <<>>
    /\ out = <<>>
    /\ exc = "none"
    /\ ret = None

InitAcq ==
    /\ scope = "constructed"
    /\ resource = [timeout |-> ZvaDefaultTimeout, closeCalls |-> 0]
    /\ inst \in InstMarked
    /\ Observed

InitSData ==
    /\ scope = "constructed"
    /\ resource = [timeout |-> ZvaDefaultTimeout, closeCalls |-> 0]
    /\ inst \in InstAnyData
    /\ Observed

NextAcq == GetSnpNetwork \/ GetActiveTraceAsNetwork \/ NextCall

SpecAcq == InitAcq /\ [][NextAcq]_vars

NextSData == GetSnpNetwork \/ GetActiveTraceAsNetwork \/ GetTraces \/ NextCall

SpecSData == InitSData /\ [][NextSData]_vars

(* ----------------------- switch terms: the actions ---------------------- *)
\* Measurement names: the names the instrument gives (Trc1), and names of
\* the form this driver gives, left by earlier runs or made by hand
NamePrefixes ==
    {<<"T", "r", "c">>,
     <<"C", "H", "1", "_", "F", "S", "_", "P", "1", "_">>,
     <<"C", "H", "1", "_", "R", "S", "_", "P", "2", "_">>}

NameSuffixes == {FormatD(99), FormatD(101)}

MeasNames == {pre \o suf : pre \in NamePrefixes, suf \in NameSuffixes}

NoRepeat(s) == \A i, j \in 1..Len(s) : i # j => s[i] # s[j]

MeasLists == {s \in SeqsUpTo(MeasNames, MaxMeas) : NoRepeat(s)}

\* x.get_switch_terms(ports) and x.get_switch_terms(ports, channel=c).  A
\* run that fails leaves its measurements on the instrument; runs are
\* explored from the measurement lists of MeasLists only.
GetSwitchTerms ==
    /\ Open /\ Idle
    /\ inst.acq.meas \in MeasLists
    /\ \E ports \in {1, 2} \X {1, 2}, chanArg \in {0, 1} :
       \E f \in PlansFor(get_switch_terms(Machine(NoFail), ports, chanArg)) :
          Finish(get_switch_terms(Machine(f), ports, chanArg),
                 [op |-> "get_switch_terms", ports |-> ports, chanArg |-> chanArg,
                  before |-> inst])

InitSwitch ==
    /\ scope = "constructed"
    /\ resource = [timeout |-> ZvaDefaultTimeout, closeCalls |-> 0]
    /\ \E ms \in MeasLists :
          inst = [chans |-> 1..MaxChan, active |-> 1, acq |-> [NoAcq EXCEPT !.meas = ms]]
    /\ Observed

NextSwitch == GetSwitchTerms \/ NextCall

SpecSwitch == InitSwitch /\ [][NextSwitch]_vars

Next == Enter \/ ExitBlock \/ Close \/ ReadActiveChannel \/ WriteActiveChannel \/ NextCall

Spec == Init /\ [][Next]_vars

(* ======================== the claims, as formulas ====================== *)

(* ---- C1 ---- *)
\* C1: once the with-block has been left, normally or by an exception, the
\* resource has been closed exactly once, also when close() was called
\* inside or after the block.
C1_ClosedExactlyOnce ==
    scope = "exited" => resource.closeCalls = 1

(* ---- C3 ---- *)
AbsentChannelSet ==
    /\ call.op = "set_active_channel"
    /\ call.channel \notin call.before.chans

DiagnosticPrinted ==
    out = <<"Channel not in list of channels. Create channel first">>

\* C3 as stated: setting active_channel to a channel that is not in the
\* channel catalog leaves the active channel unchanged and sends nothing
\* but the read of the channel catalog.
C3_OnlyCatalogRead ==
    AbsentChannelSet =>
        /\ inst.active = call.before.active
        /\ \A i \in 1..Len(io) : io[i].cmd = "query_channel_catalog"

\* C3 amended: setting active_channel to a channel that is not in the
\* channel catalog leaves the active channel unchanged and sends no
\* set-active-channel command and no other write; it reads the channel
\* catalog, prints the diagnostic and then queries the active channel once.
C3_NoWriteOneReadBack ==
    AbsentChannelSet =>
        /\ inst.active = call.before.active
        /\ inst.chans = call.before.chans
        /\ Count(io, "set_active_channel") = 0
        /\ Cmds(io) \in {<<"query_channel_catalog">>,
                         <<"query_channel_catalog", "query_active_channel">>}
        /\ (Len(io) = 2 => DiagnosticPrinted)
        /\ (exc = "none" => Len(io) = 2)

C3_Witness ==
    /\ AbsentChannelSet
    /\ exc = "none"
    /\ Len(io) = 2
    /\ DiagnosticPrinted

(* ---- C7 ---- *)
\* C7: reading active_channel sends the active-channel query once; it
\* returns the channel the instrument reports when the query succeeds,
\* returns channel 1 without raising when the query fails with a transport
\* error, and lets any other failure through.
C7_ActiveChannelFallback ==
    call.op = "active_channel" =>
        LET failed == call.fail.at = 1
            silent == call.before.active = 0
            transport == (failed /\ call.fail.kind = "VisaIOError") \/ (~failed /\ silent)
        IN /\ Cmds(io) = <<"query_active_channel">>
           /\ (~failed /\ ~silent) => (exc = "none" /\ ret = call.before.active)
           /\ transport => (exc = "none" /\ ret = 1)
           /\ (failed /\ call.fail.kind = "Error") => exc = "Error"

C7_Witness ==
    /\ call.op = "active_channel"
    /\ call.fail = [at |-> 1, kind |-> "VisaIOError"]
    /\ call.before.active = 2
    /\ exc = "none"
    /\ ret = 1

(* ---- C9 ---- *)
\* C9: after a read or a set of active_channel the resource timeout is what
\* it was before, on every exit path.
C9_TimeoutRestored ==
    call.op \in {"active_channel", "set_active_channel"} =>
        resource.timeout = call.timeout

(* ---- C2 ---- *)
\* SDATA value pair p of a trace, as a complex number
PointOf(data, p) == [re |-> data[2 * p - 1], im |-> data[2 * p]]

\* C2: in the network get_snp_network returns, the data of the trace that
\* measures S<receive><source> is at [point, index of the receive port in
\* ports, index of the source port in ports].
C2_ReceiveRowSourceColumn ==
    (call.op = "get_snp_network" /\ exc = "none") =>
        LET ports == call.ports
            acq == call.before.acq
        IN \A r \in 1..Len(ports), s \in 1..Len(ports) :
              \E i \in 1..Len(acq.traces) :
                 /\ acq.traces[i] = SKey(ports[r].v, ports[s].v)
                 /\ \A p \in 1..acq.npoints : ret.s[p][r][s] = PointOf(acq.data[i], p)

(* ---- C5 ---- *)
\* ports as the spec wants them: integers, within 1..4, no port twice
PortsValid(ports) ==
    /\ \A i \in 1..Len(ports) : ports[i].t = "int" /\ ports[i].v \in 1..4
    /\ \A i, j \in 1..Len(ports) : i # j => ports[i].v # ports[j].v

\* C5: get_snp_network with a port that is not an integer, is outside
\* 1..NPORTS or occurs twice raises a validation error and sends nothing,
\* not even the probe of the active channel.
C5_InvalidPortsNoIo ==
    (call.op = "get_snp_network" /\ ~PortsValid(call.ports)) =>
        /\ exc \in {"TypeError", "ValueError"}
        /\ io = <<>>
        /\ inst = call.before

C5_Witness ==
    /\ call.op = "get_snp_network"
    /\ call.ports = <<[t |-> "int", v |-> 2], [t |-> "int", v |-> 2]>>
    /\ exc = "ValueError"
    /\ io = <<>>

(* ---- C6 ---- *)
LacksTrace(ports, traces) ==
    \E r \in 1..Len(ports), s \in 1..Len(ports) :
        \A i \in 1..Len(traces) : traces[i] # SKey(ports[r].v, ports[s].v)

\* C6: for valid ports and a catalog that lacks the trace of some pair,
\* get_snp_network raises; the catalog query is the last command it sends
\* and no network is returned.
C6_MissingTraceStops ==
    (/\ call.op = "get_snp_network"
     /\ PortsValid(call.ports)
     /\ LacksTrace(call.ports, call.before.acq.traces)) =>
        /\ exc # "none"
        /\ ret = None
        /\ \E n \in 0..2 : Cmds(io) = SubSeq(<<"query_active_channel", "query_par_catalog">>, 1, n)
        /\ (exc \in {"Exception", "VisaIOError"} => Len(io) = 2)
        /\ (Len(io) = 2 => exc \in {"Exception", "VisaIOError", "Error"})

C6_Witness ==
    /\ call.op = "get_snp_network"
    /\ call.ports = <<[t |-> "int", v |-> 1], [t |-> "int", v |-> 2]>>
    /\ call.before.acq.traces = <<SKey(1, 1), SKey(2, 1), SKey(2, 2)>>
    /\ exc = "Exception"
    /\ Cmds(io) = <<"query_active_channel", "query_par_catalog">>

(* ---- C8 ---- *)
\* a decoded sequence s against the SDATA it was decoded from: for 2N values,
\* N entries, entry k being data[2k] + j*data[2k+1] (k from 0)
Interleaved(s, data) ==
    /\ Len(s) * 2 = Len(data)
    /\ \A k \in 0..(Len(s) - 1) : s[k + 1] = [re |-> data[2 * k + 1], im |-> data[2 * k + 2]]

\* the SDATA the selected trace held when the call was made
SDataBefore == call.before.acq.data[1]

\* C8: get_active_trace_as_network, get_snp_network and get_traces decode
\* an SDATA response of 2N values as N complex values, real part first.
C8_SDataInterleaved ==
    (exc = "none" /\ call.op \in {"get_active_trace_as_network", "get_snp_network", "get_traces"}
        /\ Len(SDataBefore) % 2 = 0) =>
        /\ call.op = "get_active_trace_as_network" => Interleaved(ret.s, SDataBefore)
        /\ call.op = "get_traces" =>
              \A i \in 1..Len(ret) : Interleaved(ret[i].s, SDataBefore)
        /\ (call.op = "get_snp_network" /\ Len(call.ports) = 1) =>
              Interleaved([p \in 1..Len(ret.s) |-> ret.s[p][1][1]], SDataBefore)

C8_Witness ==
    /\ call.op = "get_traces"
    /\ exc = "none"
    /\ SDataBefore = <<0, 1, 1, 0>>
    /\ Len(ret) = 2
    /\ ret[2].s = <<[re |-> 0, im |-> 1], [re |-> 1, im |-> 0]>>

(* ---- C4 ---- *)
SwitchCmds == {"create_meas", "sweep", "get_measurement", "set_delete_meas"}

RECURSIVE SwitchOps(_)
\* the create, sweep, read and delete commands of a log, in order
SwitchOps(log) ==
    IF log = <<>> THEN <<>>
    ELSE IF log[1].cmd \in SwitchCmds THEN <<log[1]>> \o SwitchOps(Tail(log))
    ELSE SwitchOps(Tail(log))

HasSub(s, sub) ==
    \E i \in 0..(Len(s) - Len(sub)) : SubSeq(s, i + 1, i + Len(sub)) = sub

Direction(name) ==
    IF HasSub(name, <<"_", "F", "S", "_">>) THEN "forward"
    ELSE IF HasSub(name, <<"_", "R", "S", "_">>) THEN "reverse"
    ELSE "other"

\* what a command does, and to which of the two measurements
Step(e) ==
    IF e.cmd = "sweep" THEN <<"sweep", "-">>
    ELSE IF e.cmd = "set_delete_meas" THEN <<"delete", Direction(e.args[2])>>
    ELSE IF e.cmd = "create_meas" THEN <<"create", Direction(e.args[1])>>
    ELSE <<"read", Direction(e.args[1])>>

Steps(log) == [i \in 1..Len(SwitchOps(log)) |-> Step(SwitchOps(log)[i])]

SevenSteps ==
    <<<<"create", "forward">>, <<"create", "reverse">>, <<"sweep", "-">>,
      <<"read", "forward">>, <<"read", "reverse">>,
      <<"delete", "forward">>, <<"delete", "reverse">>>>

CreatedNames == {io[i].args[1] : i \in {j \in 1..Len(io) : io[j].cmd = "create_meas"}}

ExistingNames == {call.before.acq.meas[i] : i \in 1..Len(call.before.acq.meas)}

\* C10: the names get_switch_terms creates differ from each other and from
\* the name of every measurement that exists on the channel.
C10_NamesCollisionFree ==
    call.op = "get_switch_terms" =>
        /\ CreatedNames \cap ExistingNames = {}
        /\ Count(io, "create_meas") = Cardinality(CreatedNames)

====
